---- MODULE Spec2Model ----
(***************************************************************************)
(* Client session logic of the SQL practice UI (sql-ui/src/App.jsx).       *)
(*                                                                         *)
(* The React component's state cells, the durable localStorage token and   *)
(* the fetches in flight are the state.  Every event handler is one action *)
(* for its synchronous part up to the first await (the dispatch), and one  *)
(* action for the continuation that runs when the response resolves.  A    *)
(* continuation reads the state cells through the closure of the render    *)
(* in which the handler was created, so every request in flight carries    *)
(* the values that closure captured.                                       *)
(*                                                                         *)
(* JavaScript values that may be a number, null, undefined or NaN are      *)
(* records [t, v]; string-valued cells use the strings NullS / UndefS for  *)
(* null / undefined.                                                       *)
(***************************************************************************)
EXTENDS Integers, FiniteSets, Sequences, TLC

VARIABLES
    output,        \* useState(null): last displayed Result
    hint,          \* useState(null): displayed hint text
    id,            \* useState(1): current question number
    hint_level,    \* useState(1): hint level selector
    progress,      \* useState(null): next unsolved question
    userId,        \* useState(null): resolved user identity
    access_token,  \* localStorage["access_token"]
    net,           \* fetches dispatched and not yet resolved
    sent,          \* number of fetches dispatched since the page loaded
    started,       \* the mount effect has run
    crashed,       \* a render threw: React unmounted the tree
    uncaught,      \* flow whose promise was last rejected unhandled ("" if none)
    toast          \* notification raised by the last step ("" if none)

vars == <<output, hint, id, hint_level, progress, userId, access_token,
          net, sent, started, crashed, uncaught, toast>>

\* The React state cells: frozen once the tree is unmounted.
ui == <<output, hint, id, hint_level, progress, userId>>

----------------------------------------------------------------------------
\* Bounds of the model

\* fetches one page load may dispatch
MaxSent == 3

\* largest last-answered index a progress response carries, besides the
\* catalog's last index
MaxAnswered == 1

\* largest hint level the user selects (the <select> offers 1..5)
MaxHintLevel == 2

----------------------------------------------------------------------------
\* JavaScript values

Num(n) == [t |-> "num", v |-> n]
Null == [t |-> "null", v |-> 0]
Undefined == [t |-> "undefined", v |-> 0]
NaN == [t |-> "nan", v |-> 0]

IsNum(x) == x.t = "num"

NullS == "<null>"
UndefS == "<undefined>"

\* truthiness of a string-valued cell (null, undefined and "" are falsy)
Truthy(s) == s \notin {NullS, UndefS, ""}

\* x + 1 with the operand coerced by ToNumber: null -> 0, undefined -> NaN
PlusOne(x) ==
    CASE x.t = "num" -> Num(x.v + 1)
      [] x.t = "null" -> Num(1)
      [] OTHER -> NaN

\* x - 1
MinusOne(x) ==
    CASE x.t = "num" -> Num(x.v - 1)
      [] x.t = "null" -> Num(-1)
      [] OTHER -> NaN

\* Math.min(a, x) for a number a: NaN if x is NaN/undefined, null counts as 0
MathMin(a, x) ==
    CASE x.t = "num" -> Num(IF a < x.v THEN a ELSE x.v)
      [] x.t = "null" -> Num(IF a < 0 THEN a ELSE 0)
      [] OTHER -> NaN

\* Math.max(a, x) for a number a
MathMax(a, x) ==
    CASE x.t = "num" -> Num(IF a > x.v THEN a ELSE x.v)
      [] x.t = "null" -> Num(IF a > 0 THEN a ELSE 0)
      [] OTHER -> NaN

----------------------------------------------------------------------------
\* Program constants

\* number of questions: the literal of the Next button's Math.min
totalQuestions == 51

\* the options of the hint level <select> the user picks from
HintLevels == 1..MaxHintLevel

\* questions[i-1] is defined: the bundled catalog has totalQuestions entries
HasQuestion(i) == IsNum(i) /\ i.v \in 1..totalQuestions

\* the render of a state with question number i throws at questions[i-1].question
RenderThrows(i) == ~HasQuestion(i)

\* className of the Next button: rendered as disabled
NextDisabled == progress = id

\* the hint panel with its two feedback buttons is rendered
HintShown == Truthy(hint)

\* the green "Success! Your query is correct." line is rendered
SuccessBanner == output.kind # "null" /\ output.success

\* the login button is rendered in place of the user menu
LoginShown == ~Truthy(userId)

----------------------------------------------------------------------------
\* Durable storage and the bearer header

NoToken == NullS
\* a token left in storage by an earlier visit, and tokens the backend issues
StoredTokens == {"tokA"}
IssuedTokens == {"tokB"}

\* localStorage.setItem stores the string form of its argument
StoredForm(t) == IF t = UndefS THEN "undefined" ELSE t

\* getAccessToken(): the stored token, or null (with an error toast) if absent
getAccessToken(stored) == IF Truthy(stored) THEN stored ELSE NullS

\* `Bearer ${getAccessToken()}`: the header's credential part
Bearer(stored) == IF getAccessToken(stored) = NullS THEN "null" ELSE getAccessToken(stored)

\* the toast getAccessToken raises
LoginToast(stored) == IF Truthy(stored) THEN "" ELSE "You need to log in first!"

----------------------------------------------------------------------------
\* Requests in flight and response bodies

NoOutput == [kind |-> "null", success |-> FALSE,
             student_output |-> UndefS, hint |-> UndefS]

Request(kind, auth, q, lvl, helpful, prog) ==
    [rid |-> sent + 1, kind |-> kind, auth |-> auth, question_number |-> q,
     hint_level |-> lvl, helpful |-> helpful, progress |-> prog]

CanSend == sent < MaxSent

Requests(kind) == {r \in net : r.kind = kind}

AnsweredValues == (0..MaxAnswered) \cup {totalQuestions}

\* /progress bodies: a signed-in user's record, the record of a visitor the
\* backend does not know (no user_id), and an error body (neither field)
ProgressBodies ==
    {[question_number |-> Num(n), user_id |-> "u1"] : n \in AnsweredValues}
    \cup {[question_number |-> Num(0), user_id |-> UndefS],
          [question_number |-> Undefined, user_id |-> UndefS]}

\* data["success"] is only ever tested for truthiness (App.jsx lines 139, 178,
\* 312): a body without the field reads as undefined and behaves as false
SuccessValues == BOOLEAN

\* /validate bodies: a verdict with the student's table, and an error body
\* (no success, no student_output)
ValidateBodies ==
    {[success |-> s, student_output |-> "t1"] : s \in SuccessValues}
    \cup {[success |-> FALSE, student_output |-> UndefS]}

\* /hint bodies: a hint with the nested execution record ("t1" is
\* execution.student), one whose execution record has no student ("{}"),
\* and an error body (no hint, no execution)
HintBodies ==
    {[success |-> s, hint |-> "h1", execution |-> "t1"] : s \in SuccessValues}
    \cup {[success |-> FALSE, hint |-> "h1", execution |-> "{}"],
          [success |-> FALSE, hint |-> UndefS, execution |-> UndefS]}

FeedbackBodies == {[ok |-> k] : k \in {"true", UndefS}}

LoginBodies == {[access_token |-> t] : t \in IssuedTokens \cup {UndefS}}

----------------------------------------------------------------------------
Init ==
    /\ output = NoOutput
    /\ hint = NullS
    /\ id = Num(1)
    /\ hint_level = 1
    /\ progress = Null
    /\ userId = NullS
    /\ access_token \in {NoToken} \cup StoredTokens
    /\ net = {}
    /\ sent = 0
    /\ started = FALSE
    /\ crashed = FALSE
    /\ uncaught = ""
    /\ toast = ""

\* the synchronous part of getProgress(): the fetch with the bearer header
getProgressFetch(stored) ==
    Request("progress", Bearer(stored), Undefined, 0, FALSE, Null)

\* useEffect(() => { getProgress(); }, [])
Startup ==
    /\ ~started
    /\ started' = TRUE
    /\ net' = net \cup {getProgressFetch(access_token)}
    /\ sent' = sent + 1
    /\ toast' = LoginToast(access_token)
    /\ UNCHANGED <<ui, access_token, crashed, uncaught>>

Live == started /\ ~crashed

\* GoogleLogin onSuccess -> googleLogin(credentialResponse), up to the first await
GoogleLoginClick ==
    /\ Live /\ LoginShown /\ CanSend
    /\ net' = net \cup {Request("login", "", Undefined, 0, FALSE, Null)}
    /\ sent' = sent + 1
    /\ toast' = ""
    /\ UNCHANGED <<ui, access_token, started, crashed, uncaught>>

\* googleLogin with getProgress() called before the token is persisted
RecvLoginStaleToken(r, d) ==
    /\ r \in Requests("login") /\ CanSend
    /\ access_token' = StoredForm(d.access_token)
    /\ net' = (net \ {r}) \cup {getProgressFetch(access_token)}
    /\ sent' = sent + 1
    /\ toast' = LoginToast(access_token)
    /\ UNCHANGED <<ui, started, crashed, uncaught>>

\* googleLogin after its awaits: persist the token, then call getProgress()
RecvLogin(r, d) ==
    /\ r \in Requests("login") /\ CanSend
    /\ access_token' = StoredForm(d.access_token)
    /\ net' = (net \ {r}) \cup {getProgressFetch(access_token')}
    /\ sent' = sent + 1
    /\ toast' = LoginToast(access_token')
    /\ UNCHANGED <<ui, started, crashed, uncaught>>

\* getProgress after its awaits
RecvProgress(r, d) ==
    /\ r \in Requests("progress")
    /\ net' = net \ {r}
    /\ toast' = ""
    /\ IF crashed
         THEN UNCHANGED <<ui, crashed>>
         ELSE /\ progress' = PlusOne(d.question_number)
              /\ userId' = d.user_id
              /\ id' = PlusOne(d.question_number)
              /\ crashed' = RenderThrows(id')
              /\ UNCHANGED <<output, hint, hint_level>>
    /\ UNCHANGED <<access_token, sent, started, uncaught>>

\* runQuery without its leading setHint(null)
RunQueryKeepsHint ==
    /\ Live /\ CanSend
    /\ net' = net \cup {Request("validate", Bearer(access_token), id, 0, FALSE, progress)}
    /\ sent' = sent + 1
    /\ toast' = LoginToast(access_token)
    /\ UNCHANGED <<ui, access_token, started, crashed, uncaught>>

\* Run button -> runQuery, up to the first await
RunQuery ==
    /\ Live /\ CanSend
    /\ hint' = NullS
    /\ net' = net \cup {Request("validate", Bearer(access_token), id, 0, FALSE, progress)}
    /\ sent' = sent + 1
    /\ toast' = LoginToast(access_token)
    /\ UNCHANGED <<output, id, hint_level, progress, userId,
                   access_token, started, crashed, uncaught>>

\* the Result a validation response is displayed as
ValidateOutput(r, d) ==
    [kind |-> "validate", success |-> d.success,
     student_output |-> d.student_output, hint |-> UndefS]

\* runQuery whose continuation stores the verdict without unlocking
RecvValidateNoUnlock(r, d) ==
    /\ r \in Requests("validate")
    /\ net' = net \ {r}
    /\ toast' = IF d.success THEN "Correct answer!" ELSE ""
    /\ IF crashed
         THEN UNCHANGED ui
         ELSE /\ output' = ValidateOutput(r, d)
              /\ UNCHANGED <<hint, id, hint_level, progress, userId>>
    /\ UNCHANGED <<access_token, sent, started, crashed, uncaught>>

\* runQuery whose continuation unlocks without testing data["success"]
RecvValidateAlwaysUnlock(r, d) ==
    /\ r \in Requests("validate")
    /\ net' = net \ {r}
    /\ toast' = IF d.success THEN "Correct answer!" ELSE ""
    /\ IF crashed
         THEN UNCHANGED ui
         ELSE /\ output' = ValidateOutput(r, d)
              /\ progress' = PlusOne(r.progress)
              /\ UNCHANGED <<hint, id, hint_level, userId>>
    /\ UNCHANGED <<access_token, sent, started, crashed, uncaught>>

\* runQuery with request sequencing: a response is applied only if no fetch
\* was dispatched after its request
RecvValidateSequenced(r, d) ==
    /\ r \in Requests("validate")
    /\ net' = net \ {r}
    /\ toast' = IF d.success /\ r.rid = sent THEN "Correct answer!" ELSE ""
    /\ IF crashed \/ r.rid # sent
         THEN UNCHANGED ui
         ELSE /\ output' = ValidateOutput(r, d)
              /\ progress' = IF d.success THEN PlusOne(r.progress) ELSE progress
              /\ UNCHANGED <<hint, id, hint_level, userId>>
    /\ UNCHANGED <<access_token, sent, started, crashed, uncaught>>

\* runQuery after its awaits; progress is the value its closure captured
RecvValidate(r, d) ==
    /\ r \in Requests("validate")
    /\ net' = net \ {r}
    /\ toast' = IF d.success THEN "Correct answer!" ELSE ""
    /\ IF crashed
         THEN UNCHANGED ui
         ELSE /\ output' = ValidateOutput(r, d)
              /\ progress' = IF d.success THEN PlusOne(r.progress) ELSE progress
              /\ UNCHANGED <<hint, id, hint_level, userId>>
    /\ UNCHANGED <<access_token, sent, started, crashed, uncaught>>

\* Get Hint button -> getHint, up to the first await
GetHint ==
    /\ Live /\ CanSend
    /\ net' = net \cup {Request("hint", Bearer(access_token), id, hint_level, FALSE, progress)}
    /\ sent' = sent + 1
    /\ toast' = LoginToast(access_token)
    /\ UNCHANGED <<ui, access_token, started, crashed, uncaught>>

\* data["execution"]["student"]: "{}" is an execution record without student
ExecutionStudent(e) == IF e = "{}" THEN UndefS ELSE e

\* newData = {...data, student_output: data.execution.student}
HintOutput(r, d) ==
    [kind |-> "hint", success |-> d.success,
     student_output |-> ExecutionStudent(d.execution), hint |-> d.hint]

\* getHint after its awaits; reading execution.student of a body without
\* execution throws after setHint has been called
RecvHint(r, d) ==
    /\ r \in Requests("hint")
    /\ net' = net \ {r}
    /\ IF d.execution = UndefS
         THEN /\ uncaught' = "hint"
              /\ toast' = ""
              /\ IF crashed
                   THEN UNCHANGED ui
                   ELSE /\ hint' = d.hint
                        /\ UNCHANGED <<output, id, hint_level, progress, userId>>
         ELSE /\ uncaught' = uncaught
              /\ toast' = IF d.success THEN "Correct answer!" ELSE ""
              /\ IF crashed
                   THEN UNCHANGED ui
                   ELSE /\ hint' = d.hint
                        /\ output' = HintOutput(r, d)
                        /\ progress' = IF d.success
                                         THEN PlusOne(r.progress) ELSE progress
                        /\ UNCHANGED <<id, hint_level, userId>>
    /\ UNCHANGED <<access_token, sent, started, crashed>>

\* question_number and hint_level of the body getFeedback sends: the current
\* question number and hint level selector
FeedbackBody == [question_number |-> id, hint_level |-> hint_level]

\* Helpful / Not Helpful button -> getFeedback(helpful), up to the first await
GetFeedback(helpful) ==
    /\ Live /\ HintShown /\ CanSend
    /\ net' = net \cup {Request("feedback", Bearer(access_token),
                                FeedbackBody.question_number,
                                FeedbackBody.hint_level, helpful, Null)}
    /\ sent' = sent + 1
    /\ toast' = LoginToast(access_token)
    /\ UNCHANGED <<ui, access_token, started, crashed, uncaught>>

\* getFeedback whose continuation dismisses the hint it reported on
RecvFeedbackDismissesHint(r, d) ==
    /\ r \in Requests("feedback")
    /\ net' = net \ {r}
    /\ toast' = IF Truthy(d.ok) THEN "Thank you for your feedback!" ELSE ""
    /\ IF crashed
         THEN UNCHANGED ui
         ELSE /\ hint' = NullS
              /\ UNCHANGED <<output, id, hint_level, progress, userId>>
    /\ UNCHANGED <<access_token, sent, started, crashed, uncaught>>

\* getFeedback after its awaits
RecvFeedback(r, d) ==
    /\ r \in Requests("feedback")
    /\ net' = net \ {r}
    /\ toast' = IF Truthy(d.ok) THEN "Thank you for your feedback!" ELSE ""
    /\ UNCHANGED <<ui, access_token, sent, started, crashed, uncaught>>

\* fetch() rejects (network failure) or resp.json() rejects (body is not
\* JSON): no handler has a catch, the async function's promise is rejected
FetchFails(r) ==
    /\ r \in net
    /\ net' = net \ {r}
    /\ uncaught' = r.kind
    /\ toast' = ""
    /\ UNCHANGED <<ui, access_token, sent, started, crashed>>

\* Previous Question button that steps to id - 1 without the clamp to 1
GoToPreviousUnclamped ==
    /\ Live
    /\ id' = MinusOne(id)
    /\ crashed' = RenderThrows(id')
    /\ toast' = ""
    /\ UNCHANGED <<output, hint, hint_level, progress, userId,
                   access_token, net, sent, started, uncaught>>

\* Previous Question button
GoToPrevious ==
    /\ Live
    /\ id' = MathMax(1, MinusOne(id))
    /\ crashed' = RenderThrows(id')
    /\ toast' = ""
    /\ UNCHANGED <<output, hint, hint_level, progress, userId,
                   access_token, net, sent, started, uncaught>>

\* Next Question button that steps to id + 1 without the clamp to progress
GoToNextUnclamped ==
    /\ Live
    /\ id' = PlusOne(id)
    /\ crashed' = RenderThrows(id')
    /\ toast' = ""
    /\ UNCHANGED <<output, hint, hint_level, progress, userId,
                   access_token, net, sent, started, uncaught>>

\* Next Question button
GoToNext ==
    /\ Live
    /\ id' = MathMin(totalQuestions, progress)
    /\ crashed' = RenderThrows(id')
    /\ toast' = ""
    /\ UNCHANGED <<output, hint, hint_level, progress, userId,
                   access_token, net, sent, started, uncaught>>

\* hint level <select> onChange
SetHintLevel(l) ==
    /\ Live
    /\ l # hint_level
    /\ hint_level' = l
    /\ toast' = ""
    /\ UNCHANGED <<output, hint, id, progress, userId,
                   access_token, net, sent, started, crashed, uncaught>>

\* Logout entry that reloads the page without removing the token
LogoutKeepsToken ==
    /\ Live /\ ~LoginShown
    /\ output' = NoOutput
    /\ hint' = NullS
    /\ id' = Num(1)
    /\ hint_level' = 1
    /\ progress' = Null
    /\ userId' = NullS
    /\ net' = {}
    /\ sent' = 0
    /\ started' = FALSE
    /\ crashed' = FALSE
    /\ uncaught' = ""
    /\ toast' = ""
    /\ UNCHANGED access_token

\* Logout entry of the user menu: remove the token and reload the page
Logout ==
    /\ Live /\ ~LoginShown
    /\ access_token' = NoToken
    /\ output' = NoOutput
    /\ hint' = NullS
    /\ id' = Num(1)
    /\ hint_level' = 1
    /\ progress' = Null
    /\ userId' = NullS
    /\ net' = {}
    /\ sent' = 0
    /\ started' = FALSE
    /\ crashed' = FALSE
    /\ uncaught' = ""
    /\ toast' = ""

Next ==
    \/ Startup
    \/ GoogleLoginClick
    \/ \E r \in net, d \in LoginBodies : RecvLogin(r, d)
    \/ \E r \in net, d \in ProgressBodies : RecvProgress(r, d)
    \/ RunQuery
    \/ \E r \in net, d \in ValidateBodies : RecvValidate(r, d)
    \/ GetHint
    \/ \E r \in net, d \in HintBodies : RecvHint(r, d)
    \/ \E helpful \in BOOLEAN : GetFeedback(helpful)
    \/ \E r \in net, d \in FeedbackBodies : RecvFeedback(r, d)
    \/ \E r \in net : FetchFails(r)
    \/ GoToPrevious
    \/ GoToNext
    \/ \E l \in HintLevels : SetHintLevel(l)
    \/ Logout

Spec == Init /\ [][Next]_vars

\* A returning visitor: the page loads with a token left in storage
InitStored == Init /\ access_token \in StoredTokens

SpecStored == InitStored /\ [][Next]_vars

----------------------------------------------------------------------------
\* Navigation over the whole catalog: the page as the startup refresh of a
\* signed-in user leaves it (every last answered index that has a next
\* question), followed by clicks on the two navigation buttons only.

InitNav ==
    /\ \E q \in 0..(totalQuestions - 1) :
          /\ progress = Num(q + 1)
          /\ id = Num(q + 1)
    /\ userId = "u1"
    /\ output = NoOutput
    /\ hint = NullS
    /\ hint_level = 1
    /\ access_token \in StoredTokens
    /\ net = {}
    /\ sent = 1
    /\ started = TRUE
    /\ crashed = FALSE
    /\ uncaught = ""
    /\ toast = ""

NextNav ==
    \/ GoToPrevious
    \/ GoToNext

SpecNav == InitNav /\ [][NextNav]_vars

----------------------------------------------------------------------------
\* Claims

Min(a, b) == IF a < b THEN a ELSE b

\* an authenticated flow is triggered (its synchronous part runs)
AuthFlowTriggered ==
    \/ Startup
    \/ RunQuery
    \/ GetHint
    \/ \E helpful \in BOOLEAN : GetFeedback(helpful)

\* C1: in every reachable state the current question number is an integer
\* in [1, totalQuestions], so questions[id-1] is defined.
C1_IdInRange == IsNum(id) /\ id.v \in 1..totalQuestions

\* C2: within one page load, once progress is known it is >= 1 and no step
\* of any handler lowers it.
C2_ProgressMonotone ==
    [][Logout \/ (IsNum(progress) =>
                    /\ progress.v >= 1
                    /\ IsNum(progress')
                    /\ progress'.v >= progress.v)]_vars

\* C3: an authenticated flow triggered while no access_token is stored sends
\* no request, raises the "log in" notification and changes no session state.
C3_NoTokenNoRequest ==
    [][(~Truthy(access_token) /\ AuthFlowTriggered) =>
          /\ net' = net
          /\ toast' = "You need to log in first!"
          /\ UNCHANGED ui]_vars

\* C4: every validation response with success = true leaves progress one
\* above the value it held when the response was handled.
C4_SuccessAddsOne ==
    [][\A r \in net, d \in ValidateBodies :
          (~crashed /\ d.success /\ RecvValidate(r, d)) =>
              progress' = PlusOne(progress)]_vars

\* C5: a successful validation changes progress only if the submitted
\* question is the one that gates progress (stated for responses whose
\* closure holds the current progress, so that no stale value is involved).
C5_OnlyGatingQuestionAdvances ==
    [][\A r \in net, d \in ValidateBodies :
          (/\ ~crashed /\ IsNum(progress) /\ r.progress = progress
           /\ d.success /\ RecvValidate(r, d)
           /\ progress' # progress) =>
              r.question_number = progress]_vars

\* C6: with progress known, a Next click leaves the question number at
\* min(totalQuestions, progress), never beyond progress, and unchanged when
\* progress equals the current question (the button is drawn disabled).
C6_NextWithinProgress ==
    [][(GoToNext /\ IsNum(progress)) =>
          /\ IsNum(id')
          /\ id'.v <= progress.v
          /\ id'.v = Min(totalQuestions, progress.v)
          /\ (NextDisabled => id' = id)]_vars

\* a question number no progress response of the model can set and Previous
\* only lowers: a Next click after an unlock put it there
C6_Witness ==
    /\ ~crashed
    /\ IsNum(id) /\ id.v > MaxAnswered + 1 /\ id.v <= totalQuestions
    /\ progress = id

\* C7: while progress is unknown (null) a Next click leaves the question
\* number unchanged.
C7_UnknownProgressDisablesNext ==
    [][(GoToNext /\ progress = Null) => id' = id]_vars

\* C8: a displayed hint always comes with the Result of a hint response
\* carrying that hint; a Result produced by a validation response is never
\* displayed together with a hint.
C8_HintXorVerdict ==
    /\ HintShown => (output.kind = "hint" /\ output.hint = hint)
    /\ output.kind = "validate" => ~HintShown

\* C9: no flow ends in an unhandled promise rejection.
C9_NoUncaughtFault == uncaught = ""

\* C10: when the login exchange returns access_token = t, handling it leaves
\* t in durable storage and dispatches a /progress request carrying Bearer t.
C10_LoginTokenUsed ==
    [][\A r \in net, d \in LoginBodies :
          (RecvLogin(r, d) /\ d.access_token \in IssuedTokens) =>
              /\ access_token' = d.access_token
              /\ \E p \in net' \ net :
                    p.kind = "progress" /\ p.auth = d.access_token]_vars

\* the login response has been handled: the issued token is stored and the
\* refresh it triggered is in flight with that token
C10_Witness ==
    /\ access_token \in IssuedTokens
    /\ \E p \in net : p.kind = "progress" /\ p.auth = access_token

\* a progress response has been handled since the page loaded: setUserId has
\* replaced the initial null (by the body's user_id or by undefined)
ProgressLoaded == userId # NullS

\* C11: handling a progress response with last answered index q sets
\* progress = q + 1 and userId = user_id, and sets the question number to
\* q + 1 on the first load; a later refresh leaves a question number the
\* user has moved away from the loaded one where it is.
C11_RefreshKeepsQuestion ==
    [][\A r \in net, d \in ProgressBodies :
          (~crashed /\ IsNum(d.question_number) /\ RecvProgress(r, d)) =>
              /\ progress' = Num(d.question_number.v + 1)
              /\ userId' = d.user_id
              /\ ~ProgressLoaded => id' = Num(d.question_number.v + 1)
              /\ (ProgressLoaded /\ id # progress) => id' = id]_vars

Max(a, b) == IF a > b THEN a ELSE b

\* C12: a Previous click on question n lands on max(1, n - 1), leaves
\* question 1 where it is, and changes no other field of the session.
C12_PreviousClamped ==
    [][GoToPrevious =>
          /\ IsNum(id')
          /\ id'.v = Max(1, id.v - 1)
          /\ (id = Num(1) => id' = id)
          /\ UNCHANGED <<progress, hint, output, hint_level, userId,
                         access_token>>]_vars

\* Previous clicks have walked from the last question of the catalog down
\* to question 1
C12_Witness ==
    /\ ~crashed
    /\ id = Num(1)
    /\ progress = Num(totalQuestions)

C14_HintResponse ==
    [][\A r \in net, d \in HintBodies :
          (~crashed /\ d.execution # UndefS /\ RecvHint(r, d)) =>
              /\ hint' = d.hint
              /\ output'.student_output = ExecutionStudent(d.execution)
              /\ ~d.success =>
                    /\ ~SuccessBanner'
                    /\ progress' = progress
                    /\ toast' # "Correct answer!"
              /\ d.success =>
                    /\ toast' = "Correct answer!"
                    /\ progress' = PlusOne(progress)]_vars

\* C15: a validation response whose success is not true becomes the
\* displayed Result, is rendered without the success banner, and leaves
\* progress, the question number, the hint level and the stored token alone.
C15_FailureKeepsProgress ==
    [][\A r \in net, d \in ValidateBodies :
          (~crashed /\ ~d.success /\ RecvValidate(r, d)) =>
              /\ output'.kind = "validate"
              /\ output'.student_output = d.student_output
              /\ ~SuccessBanner'
              /\ UNCHANGED <<progress, id, hint_level, access_token>>]_vars

\* a failed verdict is on screen
C15_Witness ==
    /\ ~crashed
    /\ output.kind = "validate" /\ ~output.success
    /\ output.student_output = "t1"
    /\ ~SuccessBanner

\* C16: logout removes the stored token and leaves the page as a fresh load
\* leaves it (no session field keeps its value, no request stays pending);
\* the startup refresh that follows is made without a token.
C16_LogoutResets ==
    [][/\ Logout =>
            /\ access_token' = NoToken
            /\ output' = NoOutput /\ hint' = NullS /\ id' = Num(1)
            /\ hint_level' = 1 /\ progress' = Null /\ userId' = NullS
            /\ net' = {} /\ ~started' /\ ~crashed'
       /\ (Startup /\ access_token = NoToken) =>
            \E p \in net' : p.kind = "progress" /\ p.auth = "null"]_vars

\* the page of a visitor who arrived with a stored token has been reloaded
\* by logout: the token is gone and the mount effect has not run yet
C16_Witness ==
    /\ ~started
    /\ access_token = NoToken
    /\ userId = NullS /\ progress = Null

\* C17: firing a feedback report and handling its response change no
\* session state (question, progress, hint, output, hint level, user, stored
\* token); an ok response raises the thank-you notification and nothing else.
C17_FeedbackFrame ==
    [][/\ (\E helpful \in BOOLEAN : GetFeedback(helpful)) =>
            UNCHANGED <<ui, access_token>>
       /\ \A r \in net, d \in FeedbackBodies :
            RecvFeedback(r, d) =>
                /\ UNCHANGED <<ui, access_token>>
                /\ toast' = IF d.ok = "true"
                              THEN "Thank you for your feedback!" ELSE ""]_vars

\* an ok feedback response has just been handled under the hint it was
\* about
C17_Witness ==
    /\ ~crashed
    /\ toast = "Thank you for your feedback!"
    /\ HintShown

\* C18: with a hint displayed, firing a feedback report, and likewise
\* dispatching a new submit, leaves no hint displayed.
C18_FeedbackOrSubmitHidesHint ==
    [][(HintShown /\ (RunQuery \/ \E helpful \in BOOLEAN : GetFeedback(helpful)))
          => ~HintShown']_vars

\* C18 as amended: with a hint displayed, dispatching a new submit leaves no
\* hint displayed; firing a feedback report, and handling its response,
\* leave the hint as it is.
C18_SubmitHidesHintFeedbackKeepsIt ==
    [][/\ (HintShown /\ RunQuery) => ~HintShown'
       /\ (HintShown /\ \E helpful \in BOOLEAN : GetFeedback(helpful)) =>
            (HintShown' /\ hint' = hint)
       /\ \A r \in net, d \in FeedbackBodies :
            (HintShown /\ RecvFeedback(r, d)) => (HintShown' /\ hint' = hint)]_vars

\* a feedback report has been fired and the hint it is about is still
\* displayed
C18_Witness ==
    /\ ~crashed
    /\ HintShown
    /\ \E r \in net : r.kind = "feedback"

\* C19: every validation response that resolves replaces the displayed
\* Result by its own payload, whether its request was dispatched before or
\* after the request whose response is on display: of two requests in
\* flight, the one that resolves last is the one displayed.
C19_LastResponseWins ==
    [][\A r \in net, d \in ValidateBodies :
          (~crashed /\ RecvValidate(r, d)) =>
              /\ output'.kind = "validate"
              /\ output'.success = d.success
              /\ output'.student_output = d.student_output]_vars

\* two validation requests were in flight and the one dispatched later has
\* resolved first: its verdict is displayed while the earlier request is
\* still pending
C19_Witness ==
    /\ ~crashed
    /\ output.kind = "validate"
    /\ sent = MaxSent
    /\ \E r \in Requests("validate") : net = {r} /\ r.rid = sent - 1

\* C20: a feedback report carries the question number and hint level of the
\* hint request whose response put the displayed hint on screen.  The report
\* sends FeedbackBody, so this says: when a hint response puts a hint on
\* screen, FeedbackBody is that request's question and level, and as long as
\* the hint stays on screen without a new hint response, no step (navigation,
\* level selector, refresh) changes FeedbackBody.
C20_FeedbackDescribesHint ==
    [][/\ \A r \in net, d \in HintBodies :
            (~crashed /\ RecvHint(r, d) /\ HintShown') =>
                FeedbackBody' = [question_number |-> r.question_number,
                                 hint_level |-> r.hint_level]
       /\ (/\ HintShown /\ HintShown'
           /\ ~(\E r \in net, d \in HintBodies : RecvHint(r, d))) =>
                FeedbackBody' = FeedbackBody]_vars

====
